---- MODULE Spec2Model ----
(***************************************************************************)
(* Model of the DMarket price-synchronisation engine (src/bot/bot.py) and  *)
(* of the dashboard's direct edits of the rule list (src/dashboard/app.py).*)
(*                                                                         *)
(* Prices are integer cents.  The code holds them as floats of dollars     *)
(* rounded to two decimals; for the cent values used here                  *)
(* round(x / 100 + 0.01, 2) is exactly (x + 1) / 100, and                  *)
(* round(p * 1.5, 2) is tabulated in calculated_default_max.               *)
(***************************************************************************)
EXTENDS Integers, Sequences, FiniteSets, TLC

VARIABLES
    running,               \* BotInstance.running
    first_cycle_complete,  \* BotInstance.first_cycle_complete
    shutdown_event,        \* BotInstance.shutdown_event (is it set)
    thread,                \* BotInstance.thread: slot of the last loop thread, 0 = None
    pc,                    \* position of every loop thread in run / update_target
    loc,                   \* local variables of every loop thread
    available_items,       \* BotManager.available_items
    max_prices,            \* BotManager.max_prices: the rule list, in list order
    saved,                 \* contents of config/max_prices.json
    fresh,                 \* history: the last start() found no loop thread alive
                           \* and no cycle has completed since
    past_first,            \* history, per thread: it has completed a cycle itself
    lastOp,                \* rule-store specification: the last operation and its result
    prevOp,                \* rule-store specification: the operation before lastOp
    wpc,                   \* concurrent ensureDefault: position of every caller
    wloc,                  \* concurrent ensureDefault: locals of every caller
    arg,                   \* pure-function specifications: the input drawn by Init
    result,                \* pure-function specifications: the value computed from arg
    req,                   \* DMarketAPI._make_request: the call in progress
    reg,                   \* BotManager.bots, config/bots_config.json, and the
                           \* manager call in progress or last returned
    ext,                   \* dashboard request threads inside start() or stop()
    ups,                   \* the update_max_price call in progress
    seen                   \* history: the values self.max_prices has held since
                           \* the reconciliation under observation began

vars == <<running, first_cycle_complete, shutdown_event, thread, pc, loc,
          available_items, max_prices, saved, fresh, past_first,
          lastOp, prevOp, wpc, wloc, arg, result, req, reg, ext, ups, seen>>

workerVars == <<running, first_cycle_complete, shutdown_event, thread, pc, loc,
                available_items, fresh, past_first>>
storeVars == <<max_prices, saved>>
opVars == <<lastOp, prevOp>>
concVars == <<wpc, wloc>>
pureVars == <<arg, result, req, reg, ext, ups, seen>>

----------------------------------------------------------------------------
(* Bounds of the model *)

MaxThreads == 1     \* loop threads of the instance alive at once
MaxTargets == 2     \* targets in one listing
MaxRules == 2       \* rules in the store of the rule-store specification
MaxPrice == 5       \* largest price, in cents, drawn for a pure function
MaxOrders == 2      \* competing orders in one reply, for the analysis alone
MaxCallers == 2     \* workers inside ensure_price_entry_exists at once
MaxLoopThreads == 2 \* loop threads of the instance alive at once, start/stop alone
MaxUpserts == 2     \* update_max_price calls during one reconciliation

(* Program constants *)

max_retries == 5    \* update_target: max_retries, also RateLimiter.max_retries
Inf == 1000000      \* float('inf'): above every price
Missing == -1       \* a key the rule dict does not hold
BadPrice == -2      \* a price that float() rejects or that is absent

NoArg == [fn |-> "none"]
NoResult == [done |-> FALSE]

\* no call of _make_request is in progress
NoRequest ==
    [pc |-> "idle", call |-> "none", retries |-> 0, sends |-> <<>>,
     response |-> "unbound", last |-> "none", raised |-> "none"]

\* a dict without keys
EmptyMap == [x \in {} |-> x]

\* no manager call has been made
NoCall ==
    [op |-> "none", id |-> "none", key |-> "none", ret |-> FALSE, pc |-> "done",
     bots0 |-> EmptyMap, file0 |-> EmptyMap]

\* a manager without instances
NoRegistry == [bots |-> EmptyMap, file |-> EmptyMap, call |-> NoCall]

\* no update_max_price call is in progress
NoUpsert == [pc |-> "idle"]

\* no request thread is inside start() or stop(), none inside update_max_price
NoConcurrentCalls ==
    /\ ext = <<>>
    /\ ups = NoUpsert
    /\ seen = {}

----------------------------------------------------------------------------
(* Rule store: BotManager.max_prices *)

Items == {"A", "B"}
Phases == {"", "P1"}
Floats == {"", "F1"}
Seeds == {"", "S1"}

Key(item, phase, float_val, seed) ==
    [item |-> item, phase |-> phase, float |-> float_val, seed |-> seed]

KeyOf(e) == Key(e.item, e.phase, e.float, e.seed)

\* the dict appended by update_max_price and ensure_price_entry_exists
Entry(item, phase, float_val, seed, max_price, min_price) ==
    [item |-> item, phase |-> phase, float |-> float_val, seed |-> seed,
     max_price |-> max_price, min_price |-> min_price, price |-> Missing]

\* a specificity that counts the phase alone
SpecificityPhaseOnly(e) ==
    IF e.phase # "" THEN 1 ELSE 0

\* sum(1 for k in ['phase', 'float', 'seed'] if x.get(k, ''))
Specificity(e) ==
    (IF e.phase # "" THEN 1 ELSE 0) + (IF e.float # "" THEN 1 ELSE 0)
      + (IF e.seed # "" THEN 1 ELSE 0)

\* the loop body of get_max_price / get_min_price: does the entry match the query
EntryMatches(e, item_name, phase, float_val, seed) ==
    /\ e.item = item_name
    /\ ~(e.phase # "" /\ e.phase # phase)
    /\ ~(e.float # "" /\ e.float # float_val)
    /\ ~(e.seed # "" /\ e.seed # seed)

\* matching = [entries that match], in list order
MatchingEntries(prices, item_name, phase, float_val, seed) ==
    SelectSeq(prices, LAMBDA e : EntryMatches(e, item_name, phase, float_val, seed))

\* Python's max(matching, key=...): the first element of the largest key
RECURSIVE MaxByKey(_, _)
MaxByKey(matching, best) ==
    IF matching = <<>> THEN best
    ELSE MaxByKey(Tail(matching),
                  IF Specificity(Head(matching)) > Specificity(best)
                  THEN Head(matching) ELSE best)

\* a choice that takes the first matching entry whatever its specificity
first_matching_entry(matching) == Head(matching)

\* the most specific matching rule
best_entry(matching) == MaxByKey(Tail(matching), Head(matching))

get_max_price(prices, item_name, phase, float_val, seed) ==
    LET matching == MatchingEntries(prices, item_name, phase, float_val, seed)
    IN  IF matching = <<>> THEN Inf
        ELSE IF best_entry(matching).max_price = Missing THEN Inf
        ELSE best_entry(matching).max_price

get_min_price(prices, item_name, phase, float_val, seed) ==
    LET matching == MatchingEntries(prices, item_name, phase, float_val, seed)
    IN  IF matching = <<>> THEN 0
        ELSE IF best_entry(matching).min_price = Missing THEN 0
        ELSE best_entry(matching).min_price

\* the exact-match test of update_max_price and ensure_price_entry_exists
ExactEntry(e, item_name, phase, float_val, seed) ==
    /\ e.item = item_name
    /\ e.phase = phase
    /\ e.float = float_val
    /\ e.seed = seed

\* a scan that takes any matching entry for an exact one
HasMatchingEntry(prices, item_name, phase, float_val, seed) ==
    \E i \in 1..Len(prices) : EntryMatches(prices[i], item_name, phase, float_val, seed)

\* ensure_price_entry_exists, the scan: is there an exact entry
HasExactEntry(prices, item_name, phase, float_val, seed) ==
    \E i \in 1..Len(prices) : ExactEntry(prices[i], item_name, phase, float_val, seed)

\* ensure_price_entry_exists: [prices after, returned value]
ensure_price_entry_exists(prices, item_name, phase, float_val, seed, dmax, dmin) ==
    IF HasExactEntry(prices, item_name, phase, float_val, seed)
    THEN [prices |-> prices, ret |-> FALSE]
    ELSE [prices |-> Append(prices, Entry(item_name, phase, float_val, seed, dmax, dmin)),
          ret |-> TRUE]

\* an upsert that appends without removing the entry of the same key
append_max_price(prices, item_name, phase, float_val, seed, max_price, min_price) ==
    Append(prices, Entry(item_name, phase, float_val, seed, max_price, min_price))

\* update_max_price: the list after the call
update_max_price(prices, item_name, phase, float_val, seed, max_price, min_price) ==
    Append(SelectSeq(prices,
                     LAMBDA e : ~ExactEntry(e, item_name, phase, float_val, seed)),
           Entry(item_name, phase, float_val, seed, max_price, min_price))

\* dashboard modify_max_price: the dict written at the index holds 'price',
\* and neither 'max_price' nor 'min_price'
ModifiedEntry(item, phase, float_val, seed, price) ==
    [item |-> item, phase |-> phase, float |-> float_val, seed |-> seed,
     max_price |-> Missing, min_price |-> Missing, price |-> price]

----------------------------------------------------------------------------
(* Item reconciliation: the computations of BotInstance.update_target *)

\* a target of the listing; TargetID 0 stands for a target without the key
Target(id, title, price, phase, float_val, seed) ==
    [TargetID |-> id, Title |-> title, Price |-> price,
     phase |-> phase, float |-> float_val, seed |-> seed]

\* a competing order; price in cents as the marketplace sends it
Order(price, phase, float_val, seed) ==
    [price |-> price, phase |-> phase, float |-> float_val, seed |-> seed]

\* a default max of twice the current price
double_current_price(current_price) == 2 * current_price

\* round(current_price * 1.5, 2), in cents: Python rounds the binary value of
\* the product, which lies below the half for 1 and 3 cents and above it for 5 and 7
calculated_default_max(current_price) ==
    IF current_price % 2 = 0 THEN (3 * current_price) \div 2
    ELSE IF current_price \in {1, 3} THEN (3 * current_price) \div 2
    ELSE (3 * current_price) \div 2 + 1

\* a test that looks at the phase alone
phase_only_match(order, phase, float_val, seed) ==
    ~(phase # "" /\ phase # order.phase)

\* the three attribute tests of the order loop
attributes_match(order, phase, float_val, seed) ==
    /\ ~(phase # "" /\ phase # order.phase)
    /\ ~(float_val # "" /\ float_val # order.float)
    /\ ~(seed # "" /\ seed # order.seed)

relevant_orders(orders, phase, float_val, seed) ==
    SelectSeq(orders, LAMBDA o : attributes_match(o, phase, float_val, seed))

\* max(float(order["price"]) / 100 for order in relevant_orders), in cents;
\* BadPrice when float() or the key lookup raises on one of them
RECURSIVE MaxOrderPrice(_, _)
MaxOrderPrice(orders, best) ==
    IF orders = <<>> THEN best
    ELSE IF Head(orders).price = BadPrice THEN BadPrice
    ELSE MaxOrderPrice(Tail(orders),
                       IF Head(orders).price > best THEN Head(orders).price ELSE best)

\* a highest price that is the price of the first relevant order
first_order_price(relevant) == Head(relevant).price

\* highest_price, or BadPrice when the except branch is taken
highest_price(relevant) ==
    IF Head(relevant).price = BadPrice THEN BadPrice
    ELSE MaxOrderPrice(Tail(relevant), Head(relevant).price)

\* an analysis without the fallback to the current price
optimal_without_fallback(orders, phase, float_val, seed, current_price) ==
    LET relevant == relevant_orders(orders, phase, float_val, seed)
    IN  IF relevant = <<>> THEN 0
        ELSE IF highest_price(relevant) = BadPrice THEN current_price
        ELSE highest_price(relevant) + 1

\* step 5 of update_target: the optimal price before the min/max constraints
optimal_before_clamp(orders, phase, float_val, seed, current_price) ==
    LET relevant == relevant_orders(orders, phase, float_val, seed)
    IN  IF orders = <<>> THEN current_price
        ELSE IF relevant = <<>> THEN current_price
        ELSE IF highest_price(relevant) = BadPrice THEN current_price
        ELSE highest_price(relevant) + 1

\* a clamp that applies the max constraint before the min constraint
ClampMaxFirst(optimal_price, min_price_to_use, max_price_to_use) ==
    LET lowered == IF optimal_price > max_price_to_use
                   THEN max_price_to_use ELSE optimal_price
    IN  IF lowered < min_price_to_use THEN min_price_to_use ELSE lowered

\* a clamp that forgets the max constraint
ClampWithoutMax(optimal_price, min_price_to_use, max_price_to_use) ==
    IF optimal_price < min_price_to_use THEN min_price_to_use ELSE optimal_price

\* "Apply min price constraint", then "Apply max price constraint"
Clamp(optimal_price, min_price_to_use, max_price_to_use) ==
    LET raised == IF optimal_price < min_price_to_use
                  THEN min_price_to_use ELSE optimal_price
    IN  IF raised > max_price_to_use THEN max_price_to_use ELSE raised

\* a decision that creates whether or not the deletion failed
should_create_ignoring_deletion(fcc, deletion_successful, target_id) == fcc

\* step 6 of update_target: should_create_new_target
should_create_new_target(fcc, deletion_successful, target_id) ==
    IF ~fcc THEN FALSE
    ELSE IF ~deletion_successful /\ target_id # 0 THEN FALSE
    ELSE TRUE

\* step 6 of update_target: price_for_creation
price_for_creation(current_price, optimal_price) ==
    IF current_price = optimal_price THEN current_price ELSE optimal_price

----------------------------------------------------------------------------
(* The marketplace as the worker sees it: what its calls may return *)

SeqsUpTo(S, n) == UNION {[1..k -> S] : k \in 0..n}

\* targets the listing may hold: with and without attributes, one without a
\* TargetID, one whose Price.Amount float() rejects
TargetPool ==
    { Target(1, "A", 2, "", "", ""),
      Target(2, "A", 3, "P1", "", ""),
      Target(0, "A", 2, "", "", ""),
      Target(4, "A", BadPrice, "", "", "") }

TargetLists == SeqsUpTo(TargetPool, MaxTargets)

\* replies of targets-by-title: the "orders" list
MarketReplies ==
    { <<>>,
      <<Order(4, "", "", "")>>,
      <<Order(1, "P1", "", ""), Order(6, "P2", "F1", "S1")>>,
      <<Order(2, "P2", "", "")>>,
      <<Order(BadPrice, "P1", "", ""), Order(3, "P1", "", "")>> }

\* rule lists config/max_prices.json may hold when the manager loads it
InitialRuleSets ==
    { <<>>,
      <<Entry("A", "", "", "", 3, 1)>>,
      <<Entry("A", "", "", "", 4, 0), Entry("A", "P1", "", "", 2, 3)>> }

----------------------------------------------------------------------------
(* BotInstance: start, stop and the loop thread *)

Threads == 1..MaxThreads

Alive(t) == pc[t] # "dead"

\* the locals of a loop thread outside update_target
NoLocals ==
    [targets |-> <<>>, idx |-> 0,
     max_price_config |-> Missing, min_price_config |-> Missing,
     max_price_to_use |-> Missing, min_price_to_use |-> Missing,
     retries |-> 0, deletion_successful |-> TRUE, deleted |-> FALSE,
     exhausted |-> FALSE,
     orders |-> <<>>, raw_optimal |-> Missing, optimal_price |-> Missing,
     price |-> Missing]

\* the locals at the entry of update_target for the next target of the list
EnterLocals(l) == [NoLocals EXCEPT !.targets = l.targets, !.idx = l.idx]

\* the locals after update_target returned: the for loop moves on
ReturnLocals(l) == [NoLocals EXCEPT !.targets = l.targets, !.idx = l.idx + 1]

Cur(t) == loc[t].targets[loc[t].idx]

\* a start() that forgets to clear the flag
StartKeepsFirstCycleComplete(old) == old

\* BotInstance.start: the value start() gives first_cycle_complete
StartFirstCycleComplete(old) == FALSE

\* BotInstance.start; the new thread takes the first free slot
Start ==
    /\ ~running
    /\ \E t \in DOMAIN pc :
          /\ ~Alive(t)
          /\ \A u \in DOMAIN pc : u < t => Alive(u)
          /\ running' = TRUE
          /\ first_cycle_complete' = StartFirstCycleComplete(first_cycle_complete)
          /\ shutdown_event' = FALSE
          /\ thread' = t
          /\ pc' = [pc EXCEPT ![t] = "while"]
          /\ loc' = [loc EXCEPT ![t] = NoLocals]
          /\ fresh' = (\A u \in DOMAIN pc : ~Alive(u))
          /\ past_first' = [past_first EXCEPT ![t] = FALSE]
    /\ UNCHANGED <<available_items, storeVars, opVars, concVars, pureVars>>

\* a stop() that clears the flag and leaves the event as it is
StopWithoutSignal ==
    /\ running' = FALSE
    /\ UNCHANGED <<shutdown_event, first_cycle_complete, thread, pc, loc,
                   available_items, fresh, past_first, storeVars, opVars, concVars,
                   pureVars>>

\* BotInstance.stop; the bounded join changes no state
Stop ==
    /\ running' = FALSE
    /\ shutdown_event' = TRUE
    /\ UNCHANGED <<first_cycle_complete, thread, pc, loc, available_items, fresh,
                   past_first, storeVars, opVars, concVars, pureVars>>

\* run: while self.running
While(t) ==
    /\ pc[t] = "while"
    /\ pc' = [pc EXCEPT ![t] = IF running THEN "fetch" ELSE "dead"]
    /\ loc' = [loc EXCEPT ![t] = NoLocals]
    /\ UNCHANGED <<running, first_cycle_complete, shutdown_event, thread,
                   available_items, fresh, past_first,
                   storeVars, opVars, concVars, pureVars>>

\* run: get_current_targets returned; the titles go to the manager
FetchOk(t) ==
    /\ pc[t] = "fetch"
    /\ \E l \in TargetLists :
          /\ loc' = [loc EXCEPT ![t] = [NoLocals EXCEPT !.targets = l, !.idx = 1]]
          /\ available_items' = {l[i].Title : i \in 1..Len(l)}
    /\ pc' = [pc EXCEPT ![t] = "for"]
    /\ UNCHANGED <<running, first_cycle_complete, shutdown_event, thread, fresh,
                   past_first, storeVars, opVars, concVars, pureVars>>

\* a loop that ends when get_current_targets raises
FetchFailEndsLoop(t) ==
    /\ pc[t] = "fetch"
    /\ pc' = [pc EXCEPT ![t] = "dead"]
    /\ UNCHANGED <<running, first_cycle_complete, shutdown_event, thread, loc,
                   available_items, fresh, past_first,
                   storeVars, opVars, concVars, pureVars>>

\* run: get_current_targets raised; except branch of the loop
FetchFail(t) ==
    /\ pc[t] = "fetch"
    /\ pc' = [pc EXCEPT ![t] = "err_sleep"]
    /\ UNCHANGED <<running, first_cycle_complete, shutdown_event, thread, loc,
                   available_items, fresh, past_first,
                   storeVars, opVars, concVars, pureVars>>

\* run: the for loop takes the next target and calls update_target
ForItem(t) ==
    /\ pc[t] = "for"
    /\ loc[t].idx <= Len(loc[t].targets)
    /\ Cur(t).Price # BadPrice
    /\ pc' = [pc EXCEPT ![t] = "get_max"]
    /\ loc' = [loc EXCEPT ![t] = EnterLocals(loc[t])]
    /\ UNCHANGED <<running, first_cycle_complete, shutdown_event, thread,
                   available_items, fresh, past_first,
                   storeVars, opVars, concVars, pureVars>>

\* run: float(target["Price"]["Amount"]) raises, outside update_target's try
ForBadPrice(t) ==
    /\ pc[t] = "for"
    /\ loc[t].idx <= Len(loc[t].targets)
    /\ Cur(t).Price = BadPrice
    /\ pc' = [pc EXCEPT ![t] = "err_sleep"]
    /\ loc' = [loc EXCEPT ![t] = NoLocals]
    /\ UNCHANGED <<running, first_cycle_complete, shutdown_event, thread,
                   available_items, fresh, past_first,
                   storeVars, opVars, concVars, pureVars>>

\* run: the for loop is over; first_cycle_complete is set
CycleEnd(t) ==
    /\ pc[t] = "for"
    /\ loc[t].idx > Len(loc[t].targets)
    /\ first_cycle_complete' = TRUE
    /\ pc' = [pc EXCEPT ![t] = "sleep"]
    /\ loc' = [loc EXCEPT ![t] = NoLocals]
    /\ fresh' = FALSE
    /\ past_first' = [past_first EXCEPT ![t] = TRUE]
    /\ UNCHANGED <<running, shutdown_event, thread, available_items,
                   storeVars, opVars, concVars, pureVars>>

\* run: shutdown_event.wait returned (the event, or the interval); is_set => break
Wake(t) ==
    /\ pc[t] \in {"sleep", "err_sleep"}
    /\ pc' = [pc EXCEPT ![t] = IF shutdown_event THEN "dead" ELSE "while"]
    /\ UNCHANGED <<running, first_cycle_complete, shutdown_event, thread, loc,
                   available_items, fresh, past_first,
                   storeVars, opVars, concVars, pureVars>>

----------------------------------------------------------------------------
(* BotInstance.update_target, one action for each access to shared state or *)
(* marketplace call                                                        *)

UtFrame == <<running, first_cycle_complete, shutdown_event, thread,
             available_items, fresh, past_first, opVars, concVars, pureVars>>

\* step 2: max_price_config = get_max_price(...)
GetMax(t) ==
    /\ pc[t] = "get_max"
    /\ loc' = [loc EXCEPT ![t].max_price_config =
                 get_max_price(max_prices, Cur(t).Title, Cur(t).phase,
                               Cur(t).float, Cur(t).seed)]
    /\ pc' = [pc EXCEPT ![t] = "get_min"]
    /\ UNCHANGED <<UtFrame, storeVars>>

\* step 2: min_price_config = get_min_price(...), and the test for float('inf')
GetMin(t) ==
    /\ pc[t] = "get_min"
    /\ LET m == get_min_price(max_prices, Cur(t).Title, Cur(t).phase,
                              Cur(t).float, Cur(t).seed)
       IN  loc' = [loc EXCEPT ![t].min_price_config = m,
                              ![t].max_price_to_use = loc[t].max_price_config,
                              ![t].min_price_to_use = m]
    /\ pc' = [pc EXCEPT ![t] = IF loc[t].max_price_config = Inf
                               THEN "ensure" ELSE "del_check"]
    /\ UNCHANGED <<UtFrame, storeVars>>

\* step 2, no rule found: ensure_price_entry_exists with the computed default,
\* which is used for this cycle
EnsureDefault(t) ==
    /\ pc[t] = "ensure"
    /\ LET dmax == calculated_default_max(Cur(t).Price)
           r == ensure_price_entry_exists(max_prices, Cur(t).Title, Cur(t).phase,
                                          Cur(t).float, Cur(t).seed, dmax, 0)
       IN  /\ max_prices' = r.prices
           /\ saved' = IF r.ret THEN r.prices ELSE saved
           /\ loc' = [loc EXCEPT ![t].max_price_to_use = dmax,
                                 ![t].min_price_to_use = 0]
    /\ pc' = [pc EXCEPT ![t] = "del_check"]
    /\ UNCHANGED UtFrame

\* step 3: is the old target to be deleted
delete_attempted(fcc, target_id) == fcc /\ target_id # 0

\* step 3: if self.first_cycle_complete and target_id_to_delete / elif not id
DelCheck(t) ==
    /\ pc[t] = "del_check"
    /\ IF delete_attempted(first_cycle_complete, Cur(t).TargetID)
       THEN /\ loc' = [loc EXCEPT ![t].retries = 0,
                                  ![t].deletion_successful = FALSE]
            /\ pc' = [pc EXCEPT ![t] = "delete"]
       ELSE /\ loc' = [loc EXCEPT ![t].deletion_successful = (Cur(t).TargetID # 0)]
            /\ pc' = [pc EXCEPT ![t] = "market"]
    /\ UNCHANGED <<UtFrame, storeVars>>

\* step 3: api.delete_target returned
DeleteOk(t) ==
    /\ pc[t] = "delete"
    /\ loc' = [loc EXCEPT ![t].deletion_successful = TRUE, ![t].deleted = TRUE]
    /\ pc' = [pc EXCEPT ![t] = "market"]
    /\ UNCHANGED <<UtFrame, storeVars>>

\* a delete loop that gives up one failure later
DeleteFailRetriesOnceMore(t) ==
    /\ pc[t] = "delete"
    /\ IF loc[t].retries + 1 > max_retries + 1
       THEN /\ loc' = [loc EXCEPT ![t].retries = loc[t].retries + 1,
                                  ![t].exhausted = TRUE]
            /\ pc' = [pc EXCEPT ![t] = "market"]
       ELSE /\ loc' = [loc EXCEPT ![t].retries = loc[t].retries + 1]
            /\ pc' = pc
    /\ UNCHANGED <<UtFrame, storeVars>>

\* step 3: api.delete_target raised; retry after the backoff, or give up
DeleteFail(t) ==
    /\ pc[t] = "delete"
    /\ IF loc[t].retries + 1 > max_retries
       THEN /\ loc' = [loc EXCEPT ![t].retries = loc[t].retries + 1,
                                  ![t].exhausted = TRUE]
            /\ pc' = [pc EXCEPT ![t] = "market"]
       ELSE /\ loc' = [loc EXCEPT ![t].retries = loc[t].retries + 1]
            /\ pc' = pc
    /\ UNCHANGED <<UtFrame, storeVars>>

\* step 4: api.get_market_prices raised; update_target returns
MarketFail(t) ==
    /\ pc[t] = "market"
    /\ loc' = [loc EXCEPT ![t] = ReturnLocals(loc[t])]
    /\ pc' = [pc EXCEPT ![t] = "for"]
    /\ UNCHANGED <<UtFrame, storeVars>>

\* steps 4 and 5: the orders arrive; optimal price, then the min and max constraint
MarketOk(t) ==
    /\ pc[t] = "market"
    /\ \E orders \in MarketReplies :
          LET raw == optimal_before_clamp(orders, Cur(t).phase, Cur(t).float,
                                          Cur(t).seed, Cur(t).Price)
          IN  loc' = [loc EXCEPT ![t].orders = orders,
                                 ![t].raw_optimal = raw,
                                 ![t].optimal_price =
                                     Clamp(raw, loc[t].min_price_to_use,
                                           loc[t].max_price_to_use)]
    /\ pc' = [pc EXCEPT ![t] = "decide"]
    /\ UNCHANGED <<UtFrame, storeVars>>

\* step 6: the decision to create, and the price
Decide(t) ==
    /\ pc[t] = "decide"
    /\ IF should_create_new_target(first_cycle_complete,
                                   loc[t].deletion_successful, Cur(t).TargetID)
       THEN /\ loc' = [loc EXCEPT ![t].retries = 0,
                                  ![t].price = price_for_creation(Cur(t).Price,
                                                                  loc[t].optimal_price)]
            /\ pc' = [pc EXCEPT ![t] = "create"]
       ELSE /\ loc' = [loc EXCEPT ![t] = ReturnLocals(loc[t])]
            /\ pc' = [pc EXCEPT ![t] = "for"]
    /\ UNCHANGED <<UtFrame, storeVars>>

\* step 6: api.create_target returned; update_target returns
CreateOk(t) ==
    /\ pc[t] = "create"
    /\ loc' = [loc EXCEPT ![t] = ReturnLocals(loc[t])]
    /\ pc' = [pc EXCEPT ![t] = "for"]
    /\ UNCHANGED <<UtFrame, storeVars>>

\* a create loop that gives up one failure later
CreateFailRetriesOnceMore(t) ==
    /\ pc[t] = "create"
    /\ IF loc[t].retries + 1 > max_retries + 1
       THEN /\ loc' = [loc EXCEPT ![t] = ReturnLocals(loc[t])]
            /\ pc' = [pc EXCEPT ![t] = "for"]
       ELSE /\ loc' = [loc EXCEPT ![t].retries = loc[t].retries + 1]
            /\ pc' = pc
    /\ UNCHANGED <<UtFrame, storeVars>>

\* step 6: api.create_target raised; retry after the backoff, or give up
CreateFail(t) ==
    /\ pc[t] = "create"
    /\ IF loc[t].retries + 1 > max_retries
       THEN /\ loc' = [loc EXCEPT ![t] = ReturnLocals(loc[t])]
            /\ pc' = [pc EXCEPT ![t] = "for"]
       ELSE /\ loc' = [loc EXCEPT ![t].retries = loc[t].retries + 1]
            /\ pc' = pc
    /\ UNCHANGED <<UtFrame, storeVars>>

----------------------------------------------------------------------------
(* Specification of the worker: one instance, its loop threads, the store *)

IdleOp == [op |-> "none"]

\* BotInstance.__init__: the instance as constructed, no loop thread
WorkerIdle ==
    /\ running = FALSE
    /\ first_cycle_complete = FALSE
    /\ shutdown_event = FALSE
    /\ thread = 0
    /\ pc = [t \in Threads |-> "dead"]
    /\ loc = [t \in Threads |-> NoLocals]
    /\ available_items = {}
    /\ fresh = FALSE
    /\ past_first = [t \in Threads |-> FALSE]

Init ==
    /\ WorkerIdle
    /\ max_prices \in InitialRuleSets
    /\ saved = max_prices
    /\ lastOp = IdleOp
    /\ prevOp = IdleOp
    /\ wpc = <<>>
    /\ wloc = <<>>
    /\ arg = NoArg
    /\ result = NoResult
    /\ req = NoRequest
    /\ reg = NoRegistry
    /\ NoConcurrentCalls

Next ==
    \/ Start
    \/ Stop
    \/ \E t \in Threads :
          \/ While(t)
          \/ FetchOk(t)
          \/ FetchFail(t)
          \/ ForItem(t)
          \/ ForBadPrice(t)
          \/ CycleEnd(t)
          \/ Wake(t)
          \/ GetMax(t)
          \/ GetMin(t)
          \/ EnsureDefault(t)
          \/ DelCheck(t)
          \/ DeleteOk(t)
          \/ DeleteFail(t)
          \/ MarketFail(t)
          \/ MarketOk(t)
          \/ Decide(t)
          \/ CreateOk(t)
          \/ CreateFail(t)

Spec == Init /\ [][Next]_vars

----------------------------------------------------------------------------
(* Claims about the worker, checked under Spec *)

\* C1: from a start() that found no loop thread alive until a cycle has
\* completed, no thread is at a deleteTarget or a createTarget call
C1_FirstCycleIssuesNoCalls ==
    fresh => \A t \in Threads : pc[t] \notin {"delete", "create"}

\* C1, witness: the first cycle after a fresh start has taken a full listing of
\* targets that carry an id through update_target and is about to complete
C1_Witness ==
    /\ fresh
    /\ \E t \in Threads :
          /\ pc[t] = "for"
          /\ Len(loc[t].targets) = MaxTargets
          /\ loc[t].idx > Len(loc[t].targets)
          /\ \A i \in 1..Len(loc[t].targets) : loc[t].targets[i].TargetID # 0
    /\ max_prices # <<>>

C3_CreateAfterSuccessfulDelete ==
    \A t \in Threads : (pc[t] = "create" /\ past_first[t]) => loc[t].deleted

\* C4: the price of every createTarget call is at most the max in use, and is
\* that max when the optimal price before the constraints exceeded it
C4_CreatePriceAtMostMax ==
    \A t \in Threads :
        pc[t] = "create" =>
            /\ loc[t].price <= loc[t].max_price_to_use
            /\ loc[t].raw_optimal > loc[t].max_price_to_use
                 => loc[t].price = loc[t].max_price_to_use

\* C4, witness: a createTarget call whose optimal price exceeded the max in use
C4_Witness ==
    \E t \in Threads :
        /\ pc[t] = "create"
        /\ loc[t].raw_optimal > loc[t].max_price_to_use
        /\ loc[t].price = loc[t].max_price_to_use

\* the thread is in a reconciliation that found max = float('inf') and is past
\* the call of ensure_price_entry_exists
PastDefault(t) ==
    /\ pc[t] \in {"del_check", "delete", "market", "decide", "create"}
    /\ loc[t].max_price_config = Inf

\* the rules of the store that have exactly the key of the thread's target
ExactIdx(t) ==
    {i \in 1..Len(max_prices) :
        KeyOf(max_prices[i]) = Key(Cur(t).Title, Cur(t).phase, Cur(t).float, Cur(t).seed)}

C14_FailureKeepsCycle ==
    [][\A t \in Threads :
          (pc[t] = "for" /\ pc'[t] \in {"sleep", "err_sleep"})
              => loc[t].idx > Len(loc[t].targets)]_vars

\* C16: once stop() has set the shutdown signal, the worker starts no item
\* reconciliation for a later target of the cycle
C16_NoItemAfterStop ==
    [][\A t \in Threads :
          (pc[t] = "for" /\ pc'[t] = "get_max" /\ loc[t].idx >= 2)
              => ~shutdown_event]_vars

----------------------------------------------------------------------------
(* The worker under fair scheduling of its loop thread: the wait on the     *)
(* shutdown event returns (the event is set, or the interval has passed)   *)
(* and the loop condition is evaluated                                     *)

Fairness == \A t \in Threads : WF_vars(Wake(t)) /\ WF_vars(While(t))

SpecFair == Init /\ [][Next]_vars /\ Fairness

\* C15: a loop thread ends only after stop() has cleared the running flag,
\* and a thread that sleeps after a failed cycle begins another cycle unless
\* stop() is called
C15_LoopSurvivesFailedCycle ==
    /\ [][\A t \in Threads : (pc[t] # "dead" /\ pc'[t] = "dead") => ~running]_vars
    /\ \A t \in Threads : (pc[t] = "err_sleep") ~> (pc[t] = "fetch" \/ ~running)

\* C15, witness: after a completed first cycle a later cycle has failed and
\* the thread sleeps, stop() not called
C15_Witness ==
    \E t \in Threads :
        /\ pc[t] = "err_sleep"
        /\ running
        /\ ~shutdown_event
        /\ past_first[t]

\* C17: a thread in its inter-cycle sleep, after stop() and with no start()
\* since, leaves the sleep only to end (it fetches no further listing), and
\* it does end unless start() is called
C17_StopEndsSleep ==
    /\ [][\A t \in Threads :
            (pc[t] \in {"sleep", "err_sleep"} /\ ~running /\ pc'[t] # pc[t])
                => pc'[t] = "dead"]_vars
    /\ \A t \in Threads :
          (pc[t] \in {"sleep", "err_sleep"} /\ ~running) ~> (pc[t] = "dead" \/ running)

\* C17, witness: stop() has been called and the thread is in the sleep that
\* follows a completed cycle
C17_Witness ==
    \E t \in Threads :
        /\ pc[t] = "sleep"
        /\ ~running
        /\ shutdown_event
        /\ first_cycle_complete

----------------------------------------------------------------------------
(* start() and stop() called at any time on one instance: specification    *)
(* SpecLife.  stop() returns after its bounded join whether or not the     *)
(* loop thread has ended, so start() can find an earlier thread alive; the *)
(* instance has room for MaxLoopThreads threads, and update_target is one  *)
(* step of its thread.                                                     *)

LifeThreads == 1..MaxLoopThreads

\* listings of the marketplace: up to MaxTargets targets of one kind
LifeTargetLists == SeqsUpTo({Target(1, "A", 2, "", "", "")}, MaxTargets)

InitLife ==
    /\ running = FALSE
    /\ first_cycle_complete = FALSE
    /\ shutdown_event = FALSE
    /\ thread = 0
    /\ pc = [t \in LifeThreads |-> "dead"]
    /\ loc = [t \in LifeThreads |-> NoLocals]
    /\ available_items = {}
    /\ fresh = FALSE
    /\ past_first = [t \in LifeThreads |-> FALSE]
    /\ max_prices = <<>>
    /\ saved = <<>>
    /\ lastOp = IdleOp
    /\ prevOp = IdleOp
    /\ wpc = <<>>
    /\ wloc = <<>>
    /\ arg = NoArg
    /\ result = NoResult
    /\ req = NoRequest
    /\ reg = NoRegistry
    /\ NoConcurrentCalls

\* run: get_current_targets returned; the titles go to the manager
LifeFetchOk(t) ==
    /\ pc[t] = "fetch"
    /\ \E l \in LifeTargetLists :
          /\ loc' = [loc EXCEPT ![t] = [NoLocals EXCEPT !.targets = l, !.idx = 1]]
          /\ available_items' = {l[i].Title : i \in 1..Len(l)}
    /\ pc' = [pc EXCEPT ![t] = "for"]
    /\ UNCHANGED <<running, first_cycle_complete, shutdown_event, thread, fresh,
                   past_first, storeVars, opVars, concVars, pureVars>>

\* update_target from its entry to its return: the rule it may add to the
\* store is its only effect on the state of the program
UpdateTargetWhole(t) ==
    /\ pc[t] = "get_max"
    /\ LET m == get_max_price(max_prices, Cur(t).Title, Cur(t).phase,
                              Cur(t).float, Cur(t).seed)
           r == ensure_price_entry_exists(max_prices, Cur(t).Title, Cur(t).phase,
                                          Cur(t).float, Cur(t).seed,
                                          calculated_default_max(Cur(t).Price), 0)
       IN  /\ max_prices' = IF m = Inf THEN r.prices ELSE max_prices
           /\ saved' = IF m = Inf /\ r.ret THEN r.prices ELSE saved
    /\ loc' = [loc EXCEPT ![t] = ReturnLocals(loc[t])]
    /\ pc' = [pc EXCEPT ![t] = "for"]
    /\ UNCHANGED UtFrame

NextLife ==
    \/ Start
    \/ Stop
    \/ \E t \in LifeThreads :
          \/ While(t)
          \/ LifeFetchOk(t)
          \/ FetchFail(t)
          \/ ForItem(t)
          \/ UpdateTargetWhole(t)
          \/ CycleEnd(t)
          \/ Wake(t)

SpecLife == InitLife /\ [][NextLife]_vars

\* C18: no two item reconciliations of the instance are in flight at once
\* (at most one loop thread is inside update_target)
C18_OneReconciliationInFlight ==
    Cardinality({t \in DOMAIN pc : pc[t] = "get_max"}) <= 1

\* C19: the thread launched by the last start() reconciles the items of its
\* first cycle with the first-cycle-complete flag clear
C19_FirstCycleAfterRestart ==
    \A t \in DOMAIN pc :
        (thread = t /\ pc[t] = "get_max" /\ ~past_first[t]) => ~first_cycle_complete

\* C30: first_cycle_complete becomes True only by the step of a loop thread
\* that ends a cycle, the listing fetched and the for loop over it run to its
\* end; and a thread that has not ended a cycle since its start(), whether
\* its earlier listings failed or not, enters update_target with the flag
\* clear, so that it neither deletes nor creates
C30_FlagOnlyAfterFullCycle ==
    /\ [][(~first_cycle_complete /\ first_cycle_complete') =>
              \E t \in DOMAIN pc :
                  /\ pc[t] = "for"
                  /\ loc[t].idx > Len(loc[t].targets)
                  /\ pc'[t] = "sleep"]_vars
    /\ [](\A t \in DOMAIN pc :
              (pc[t] = "get_max" /\ ~past_first[t]) => ~first_cycle_complete)

----------------------------------------------------------------------------
(* The min/max constraint as a pure function: specification SpecClamp *)

ClampInputs ==
    [fn : {"clamp"}, optimal : 0..MaxPrice, min : 0..MaxPrice,
     max : (0..MaxPrice) \cup {Inf}]

InitClamp ==
    /\ WorkerIdle
    /\ max_prices = <<>>
    /\ saved = <<>>
    /\ lastOp = IdleOp
    /\ prevOp = IdleOp
    /\ wpc = <<>>
    /\ wloc = <<>>
    /\ arg \in ClampInputs
    /\ result = NoResult
    /\ req = NoRequest
    /\ reg = NoRegistry
    /\ NoConcurrentCalls

\* update_target, lines 429-439, applied to the drawn optimal, min and max
ApplyClamp ==
    /\ arg.fn = "clamp"
    /\ ~result.done
    /\ result' = [done |-> TRUE, value |-> Clamp(arg.optimal, arg.min, arg.max)]
    /\ UNCHANGED <<workerVars, storeVars, opVars, concVars, arg, req, reg, ext, ups, seen>>

NextClamp == ApplyClamp

SpecClamp == InitClamp /\ [][NextClamp]_vars

\* C5: the optimal price after the min and then the max constraint lies in
\* [min, max] when min <= max, and is max when min > max
C5_ClampWithinBounds ==
    (arg.fn = "clamp" /\ result.done) =>
        /\ arg.min <= arg.max => (arg.min <= result.value /\ result.value <= arg.max)
        /\ arg.min > arg.max => result.value = arg.max

\* C5, witness: a clamped price for a min above the max and an optimal price
\* below both
C5_Witness ==
    /\ arg.fn = "clamp"
    /\ result.done
    /\ arg.min > arg.max
    /\ arg.optimal < arg.max
    /\ result.value = arg.max

----------------------------------------------------------------------------
(* The market analysis as a pure function: specification SpecMarket *)

OrderPool ==
    { Order(p, ph, fl, sd) :
        p \in {1, 3, BadPrice}, ph \in {"", "P1", "P2"}, fl \in Floats, sd \in Seeds }

MarketInputs ==
    [fn : {"optimal"}, orders : SeqsUpTo(OrderPool, MaxOrders),
     phase : Phases, float : Floats, seed : Seeds, current_price : {2, MaxPrice}]

InitMarket ==
    /\ WorkerIdle
    /\ max_prices = <<>>
    /\ saved = <<>>
    /\ lastOp = IdleOp
    /\ prevOp = IdleOp
    /\ wpc = <<>>
    /\ wloc = <<>>
    /\ arg \in MarketInputs
    /\ result = NoResult
    /\ req = NoRequest
    /\ reg = NoRegistry
    /\ NoConcurrentCalls

\* update_target, lines 386-427, applied to the drawn orders and target
ApplyOptimal ==
    /\ arg.fn = "optimal"
    /\ ~result.done
    /\ result' = [done |-> TRUE,
                  relevant |-> relevant_orders(arg.orders, arg.phase, arg.float,
                                               arg.seed),
                  value |-> optimal_before_clamp(arg.orders, arg.phase, arg.float,
                                                 arg.seed, arg.current_price)]
    /\ UNCHANGED <<workerVars, storeVars, opVars, concVars, arg, req, reg, ext, ups, seen>>

NextMarket == ApplyOptimal

SpecMarket == InitMarket /\ [][NextMarket]_vars

\* the orders of the reply that agree with every attribute the target specifies
RelevantIdx ==
    {i \in 1..Len(arg.orders) :
        /\ arg.phase = "" \/ arg.orders[i].phase = arg.phase
        /\ arg.float = "" \/ arg.orders[i].float = arg.float
        /\ arg.seed = "" \/ arg.orders[i].seed = arg.seed}

Occurrences(os, o) == Cardinality({i \in 1..Len(os) : os[i] = o})

\* C11: the relevant orders are exactly the orders of the reply that agree
\* with every attribute the target specifies; an attribute the target leaves
\* empty excludes no order, and a target of phase P1 without float and seed
\* takes every order of phase P1 and no order of another phase
C11_RelevantIffAttributesAgree ==
    (arg.fn = "optimal" /\ result.done) =>
        /\ Len(result.relevant) = Cardinality(RelevantIdx)
        /\ \A o \in OrderPool :
              Occurrences(result.relevant, o)
                = Cardinality({i \in RelevantIdx : arg.orders[i] = o})
        /\ (arg.phase = "P1" /\ arg.float = "" /\ arg.seed = "") =>
              \A i \in 1..Len(arg.orders) :
                  (arg.orders[i].phase = "P1") <=>
                      (\E j \in 1..Len(result.relevant) :
                          result.relevant[j] = arg.orders[i])

\* C11, witness: a target of phase P1 without float and seed, an order of
\* phase P2 that is left out and an order of phase P1 with a float and a seed
\* that is taken
C11_Witness ==
    /\ arg.fn = "optimal"
    /\ result.done
    /\ arg.phase = "P1" /\ arg.float = "" /\ arg.seed = ""
    /\ Len(arg.orders) = 2
    /\ arg.orders[1].phase = "P2"
    /\ arg.orders[2] = Order(3, "P1", "F1", "S1")
    /\ result.relevant = <<arg.orders[2]>>

\* C12: with no order in the reply, or none that is relevant, the optimal
\* price before the constraints is the target's current price
C12_NoRelevantOrderKeepsPrice ==
    (arg.fn = "optimal" /\ result.done /\ RelevantIdx = {}) =>
        result.value = arg.current_price

\* C12, witness: a reply whose orders all differ from the target in the
\* phase, none of them priced one cent below the current price
C12_Witness ==
    /\ arg.fn = "optimal"
    /\ result.done
    /\ Len(arg.orders) = MaxOrders
    /\ RelevantIdx = {}
    /\ \A i \in 1..Len(arg.orders) :
          /\ arg.orders[i].price # BadPrice
          /\ arg.orders[i].price + 1 # arg.current_price
    /\ result.value = arg.current_price

----------------------------------------------------------------------------
(* The rule store, its operations one at a time: specification SpecStore *)

\* keys the operations are called with
RuleKeys ==
    { Key("A", "", "", ""), Key("A", "P1", "", ""), Key("A", "", "F1", ""),
      Key("A", "P1", "F1", "S1") }

\* queries resolve is called with
Queries ==
    { Key(i, ph, fl, sd) : i \in Items, ph \in Phases, fl \in Floats, sd \in Seeds }

\* (max, min) pairs the operations are called with, in cents
RuleBounds == { [max |-> 3, min |-> 1], [max |-> 4, min |-> 2] }

\* the record of an operation: its name and key, the value it returned
\* (ret for ensureDefault, max and min for resolve), and for ensureDefault the
\* list before the call
OpRec(op, key, ret, max, min, before) ==
    [op |-> op, key |-> key, ret |-> ret, max |-> max, min |-> min, before |-> before]

\* what is kept of the operation before the last: whether it was an
\* ensureDefault call, and then its key and how many rules had that key before it
PrevRec(op) ==
    IF op.op = "none" THEN IdleOp
    ELSE IF op.op # "ensure" THEN [op |-> "other"]
    ELSE [op |-> "ensure", key |-> op.key,
          n |-> Cardinality({i \in 1..Len(op.before) : KeyOf(op.before[i]) = op.key})]

InitStore ==
    /\ WorkerIdle
    /\ max_prices = <<>>
    /\ saved = <<>>
    /\ lastOp = IdleOp
    /\ prevOp = IdleOp
    /\ wpc = <<>>
    /\ wloc = <<>>
    /\ arg = NoArg
    /\ result = NoResult
    /\ req = NoRequest
    /\ reg = NoRegistry
    /\ NoConcurrentCalls

\* BotManager.update_max_price, with its save_max_prices
OpUpsert ==
    \E k \in RuleKeys, b \in RuleBounds :
        LET after == update_max_price(max_prices, k.item, k.phase, k.float, k.seed,
                                      b.max, b.min)
        IN  /\ Len(after) <= MaxRules
            /\ max_prices' = after
            /\ saved' = after
            /\ lastOp' = OpRec("upsert", k, TRUE, Missing, Missing, <<>>)
            /\ prevOp' = PrevRec(lastOp)
            /\ UNCHANGED <<workerVars, concVars, pureVars>>

\* ensure_price_entry_exists that appends and returns without saving
OpEnsureWithoutSave ==
    \E k \in RuleKeys, b \in RuleBounds :
        LET r == ensure_price_entry_exists(max_prices, k.item, k.phase, k.float,
                                           k.seed, b.max, b.min)
        IN  /\ Len(r.prices) <= MaxRules
            /\ max_prices' = r.prices
            /\ saved' = saved
            /\ lastOp' = OpRec("ensure", k, r.ret, Missing, Missing, max_prices)
            /\ prevOp' = PrevRec(lastOp)
            /\ UNCHANGED <<workerVars, concVars, pureVars>>

\* BotManager.ensure_price_entry_exists, with its save_max_prices
OpEnsure ==
    \E k \in RuleKeys, b \in RuleBounds :
        LET r == ensure_price_entry_exists(max_prices, k.item, k.phase, k.float,
                                           k.seed, b.max, b.min)
        IN  /\ Len(r.prices) <= MaxRules
            /\ max_prices' = r.prices
            /\ saved' = IF r.ret THEN r.prices ELSE saved
            /\ lastOp' = OpRec("ensure", k, r.ret, Missing, Missing, max_prices)
            /\ prevOp' = PrevRec(lastOp)
            /\ UNCHANGED <<workerVars, concVars, pureVars>>

\* dashboard modify_max_price (PUT /api/max-prices/<index>)
OpModify ==
    \E i \in 1..Len(max_prices), k \in RuleKeys :
        /\ max_prices' = [max_prices EXCEPT ![i] =
                             ModifiedEntry(k.item, k.phase, k.float, k.seed, MaxPrice)]
        /\ saved' = max_prices'
        /\ lastOp' = OpRec("modify", k, TRUE, Missing, Missing, <<>>)
        /\ prevOp' = PrevRec(lastOp)
        /\ UNCHANGED <<workerVars, concVars, pureVars>>

\* dashboard delete_max_price (DELETE /api/max-prices/<index>)
OpDelete ==
    \E i \in 1..Len(max_prices) :
        /\ max_prices' = SubSeq(max_prices, 1, i - 1)
                           \o SubSeq(max_prices, i + 1, Len(max_prices))
        /\ saved' = max_prices'
        /\ lastOp' = OpRec("delete", KeyOf(max_prices[i]), TRUE, Missing, Missing, <<>>)
        /\ prevOp' = PrevRec(lastOp)
        /\ UNCHANGED <<workerVars, concVars, pureVars>>

\* resolve: get_max_price and get_min_price for one query, as update_target
\* calls them
OpResolve ==
    \E q \in Queries :
        /\ lastOp' = OpRec("resolve", q, TRUE,
                           get_max_price(max_prices, q.item, q.phase, q.float, q.seed),
                           get_min_price(max_prices, q.item, q.phase, q.float, q.seed),
                           <<>>)
        /\ prevOp' = PrevRec(lastOp)
        /\ UNCHANGED <<workerVars, storeVars, concVars, pureVars>>

NextStore ==
    \/ OpUpsert
    \/ OpEnsure
    \/ OpModify
    \/ OpDelete
    \/ OpResolve

SpecStore == InitStore /\ [][NextStore]_vars

\* does rule e match query q: same item, and every attribute the rule gives
\* equals the query's
RuleMatchesQuery(e, q) ==
    /\ e.item = q.item
    /\ e.phase = "" \/ e.phase = q.phase
    /\ e.float = "" \/ e.float = q.float
    /\ e.seed = "" \/ e.seed = q.seed

\* the rules of the list that match the query of the last resolve
MatchingIdx == {i \in 1..Len(max_prices) : RuleMatchesQuery(max_prices[i], lastOp.key)}

\* the number of attributes a rule gives
AttrCount(e) == Cardinality({a \in {"phase", "float", "seed"} : e[a] # ""})

\* the max and the min a rule holds; a rule without the key holds none
\* and resolve reads it as float('inf') and 0.0
RuleMax(e) == IF e.max_price = Missing THEN Inf ELSE e.max_price
RuleMin(e) == IF e.min_price = Missing THEN 0 ELSE e.min_price

\* C6: the max and min resolve returned are those held by one matching rule,
\* and no matching rule gives more attributes than that rule
C6_ResolveMostSpecific ==
    (lastOp.op = "resolve" /\ MatchingIdx # {}) =>
        \E i \in MatchingIdx :
            /\ lastOp.max = RuleMax(max_prices[i])
            /\ lastOp.min = RuleMin(max_prices[i])
            /\ \A j \in MatchingIdx : AttrCount(max_prices[j]) <= AttrCount(max_prices[i])

\* C6, witness: two rules match the query, the more specific one comes second
\* in the list, and it alone holds the returned pair
C6_Witness ==
    /\ lastOp.op = "resolve"
    /\ MatchingIdx = {1, 2}
    /\ AttrCount(max_prices[2]) > AttrCount(max_prices[1])
    /\ lastOp.max = max_prices[2].max_price
    /\ lastOp.min = max_prices[2].min_price
    /\ lastOp.max # RuleMax(max_prices[1])
    /\ lastOp.min # RuleMin(max_prices[1])

\* C7: resolve returns max = +infinity and min = 0 exactly when no rule
\* matches, and the finite max of a matching rule otherwise
C7_InfiniteIffNoMatch ==
    lastOp.op = "resolve" =>
        /\ (lastOp.max = Inf /\ lastOp.min = 0) <=> (MatchingIdx = {})
        /\ MatchingIdx # {} =>
              /\ lastOp.max < Inf
              /\ \E i \in MatchingIdx : lastOp.max = max_prices[i].max_price

----------------------------------------------------------------------------
(* ensure_price_entry_exists called by several workers at once: specification *)
(* SpecConc.  The method takes no lock; a thread switch can fall between any  *)
(* two of its steps: the tests of the scan, the append, the save.             *)

Callers == 1..MaxCallers

\* keys the workers call with: the attribute triples of their targets
CallerKeys == { Key("A", "", "", ""), Key("A", "P1", "", "") }

\* the default max each worker computed from the price of its own target
CallerDefaults == { calculated_default_max(2), calculated_default_max(3) }

\* rule lists at the time of the calls; none holds a key of CallerKeys
ConcInitialRuleSets == { <<>>, <<Entry("B", "", "", "", 3, 1)>> }

InitConc ==
    /\ WorkerIdle
    /\ max_prices \in ConcInitialRuleSets
    /\ saved = max_prices
    /\ lastOp = IdleOp
    /\ prevOp = IdleOp
    /\ wpc = [w \in Callers |-> "scan"]
    /\ wloc \in [Callers -> [key : CallerKeys, dmax : CallerDefaults,
                             i : {1}, ret : {"pending"}]]
    /\ arg = NoArg
    /\ result = NoResult
    /\ req = NoRequest
    /\ reg = NoRegistry
    /\ NoConcurrentCalls

\* ensure_price_entry_exists, lines 603-608: one turn of the for loop over
\* self.max_prices
ScanStep(w) ==
    /\ wpc[w] = "scan"
    /\ LET k == wloc[w].key
       IN  IF wloc[w].i > Len(max_prices)
           THEN /\ wpc' = [wpc EXCEPT ![w] = "append"]
                /\ wloc' = wloc
           ELSE IF ExactEntry(max_prices[wloc[w].i], k.item, k.phase, k.float, k.seed)
           THEN /\ wpc' = [wpc EXCEPT ![w] = "done"]
                /\ wloc' = [wloc EXCEPT ![w].ret = "False"]
           ELSE /\ wpc' = wpc
                /\ wloc' = [wloc EXCEPT ![w].i = wloc[w].i + 1]
    /\ UNCHANGED <<workerVars, storeVars, opVars, pureVars>>

\* ensure_price_entry_exists, lines 611-618: self.max_prices.append(...)
AppendStep(w) ==
    /\ wpc[w] = "append"
    /\ LET k == wloc[w].key
       IN  max_prices' = Append(max_prices,
                                Entry(k.item, k.phase, k.float, k.seed, wloc[w].dmax, 0))
    /\ wpc' = [wpc EXCEPT ![w] = "save"]
    /\ UNCHANGED <<workerVars, saved, wloc, opVars, pureVars>>

\* ensure_price_entry_exists, lines 619-621: save_max_prices() and return True
SaveStep(w) ==
    /\ wpc[w] = "save"
    /\ saved' = max_prices
    /\ wpc' = [wpc EXCEPT ![w] = "done"]
    /\ wloc' = [wloc EXCEPT ![w].ret = "True"]
    /\ UNCHANGED <<workerVars, max_prices, opVars, pureVars>>

NextConc ==
    \E w \in Callers :
        \/ ScanStep(w)
        \/ AppendStep(w)
        \/ SaveStep(w)

SpecConc == InitConc /\ [][NextConc]_vars

\* C9: when all the concurrent calls were for one key and have returned,
\* exactly one of them returned true and the store holds exactly one rule
\* with that key
C9_ExactlyOneInsertion ==
    ( /\ \A w \in Callers : wpc[w] = "done"
      /\ \A v, w \in Callers : wloc[v].key = wloc[w].key )
    =>
    ( /\ Cardinality({w \in Callers : wloc[w].ret = "True"}) = 1
      /\ Cardinality({i \in 1..Len(max_prices) :
                         KeyOf(max_prices[i]) = wloc[1].key}) = 1 )

----------------------------------------------------------------------------
(* DMarketAPI._make_request, one call from its first send to its return or *)
(* raise: specification SpecRequest.  What the marketplace answers to each *)
(* send is drawn when the send is made.                                    *)

\* the four operations of the client, each one call of _make_request
Calls == {"get_current_targets", "delete_target", "create_target", "get_market_prices"}

\* status codes of the responses: success, rate limit, other HTTP errors
Statuses == {"200", "429", "400", "404", "500"}

\* RateLimiter.handle_rate_limit: does it raise instead of sleeping
handle_rate_limit_raises(retries) == retries >= max_retries

InitRequest ==
    /\ WorkerIdle
    /\ max_prices = <<>>
    /\ saved = <<>>
    /\ lastOp = IdleOp
    /\ prevOp = IdleOp
    /\ wpc = <<>>
    /\ wloc = <<>>
    /\ arg = NoArg
    /\ result = NoResult
    /\ \E c \in Calls : req = [NoRequest EXCEPT !.pc = "send", !.call = c]
    /\ reg = NoRegistry
    /\ NoConcurrentCalls

RequestFrame == <<workerVars, storeVars, opVars, concVars, arg, result, reg, ext, ups, seen>>

\* lines 108-120: the request is sent and a response arrives; raise_for_status
\* raises for every status but 200
SendResponse ==
    /\ req.pc = "send"
    /\ \E st \in Statuses :
          req' = [req EXCEPT !.sends = Append(req.sends, req.call),
                             !.response = st,
                             !.last = st,
                             !.pc = IF st = "200" THEN "returned" ELSE "except"]
    /\ UNCHANGED RequestFrame

\* lines 112-117: session.request raises (no connection, timeout); the local
\* variable response keeps what an earlier turn of the loop gave it
SendNoResponse ==
    /\ req.pc = "send"
    /\ req' = [req EXCEPT !.sends = Append(req.sends, req.call),
                          !.last = "conn",
                          !.pc = "except"]
    /\ UNCHANGED RequestFrame

\* an except branch that takes every error status for a rate limit
ExceptRetriesEveryStatus ==
    /\ req.pc = "except"
    /\ req' = IF req.response = "unbound"
              THEN [req EXCEPT !.pc = "raised", !.raised = "unbound"]
              ELSE IF handle_rate_limit_raises(req.retries)
              THEN [req EXCEPT !.pc = "raised", !.raised = "max_retries"]
              ELSE [req EXCEPT !.pc = "backoff"]
    /\ UNCHANGED RequestFrame

\* lines 122-129: except RequestException; handle_rate_limit up to its raise
\* or its sleep
Except ==
    /\ req.pc = "except"
    /\ req' = IF req.response = "unbound"
              THEN [req EXCEPT !.pc = "raised", !.raised = "unbound"]
              ELSE IF req.response = "429"
              THEN IF handle_rate_limit_raises(req.retries)
                   THEN [req EXCEPT !.pc = "raised", !.raised = "max_retries"]
                   ELSE [req EXCEPT !.pc = "backoff"]
              ELSE [req EXCEPT !.pc = "raised", !.raised = "error"]
    /\ UNCHANGED RequestFrame

\* lines 74-76 and 125-126: the sleep of handle_rate_limit ends, retries += 1,
\* continue, and the loop condition of line 106
Backoff ==
    /\ req.pc = "backoff"
    /\ req' = [req EXCEPT !.retries = req.retries + 1,
                          !.pc = IF req.retries + 1 <= max_retries
                                 THEN "send" ELSE "returned"]
    /\ UNCHANGED RequestFrame

NextRequest ==
    \/ SendResponse
    \/ SendNoResponse
    \/ Except
    \/ Backoff

SpecRequest == InitRequest /\ [][NextRequest]_vars

\* the last send was answered with an HTTP error status other than 429
OtherErrorStatus == req.last \in Statuses \ {"200", "429"}

C21_BackoffUpToCeiling ==
    /\ [][(req.pc = "except" /\ req.response = "429" /\ req.retries <= max_retries)
             => req'.pc = "backoff"]_vars
    /\ [][req.pc = "send" => Len(req.sends) <= max_retries + 1]_vars
    /\ [][(req.pc = "except" /\ req'.pc = "raised" /\ req.response = "429")
             => req'.raised = "max_retries"]_vars

----------------------------------------------------------------------------
(* The retry loops of update_target, under specification Spec *)

C28_CreateBounded ==
    /\ [](\A t \in Threads : pc[t] = "create" => loc[t].retries <= max_retries)
    /\ [][\A t \in Threads : (pc[t] = "create" /\ loc'[t] # loc[t]) =>
              IF pc'[t] = "create"
              THEN loc'[t].retries = loc[t].retries + 1 /\ loc'[t].idx = loc[t].idx
              ELSE pc'[t] = "for" /\ loc'[t].idx = loc[t].idx + 1]_vars

\* C28, witness: the create loop is about to make its last call, after
\* max_retries failures, for a target whose deletion succeeded
C28_Witness ==
    \E t \in Threads :
        /\ pc[t] = "create"
        /\ loc[t].retries = max_retries
        /\ loc[t].deleted

\* C29: update_target ends for a target it has deleted only from the create
\* loop, that is after a call of api.create_target
C29_DeletedTargetIsRecreated ==
    [][\A t \in Threads :
          (loc[t].deleted /\ pc[t] # "for" /\ pc'[t] = "for") => pc[t] = "create"]_vars

----------------------------------------------------------------------------
(* The rule store under upsert and ensureDefault alone: specification SpecRules *)

\* load_max_prices: the list is what the file holds, here without two rules
\* of one key
InitRules ==
    /\ WorkerIdle
    /\ max_prices \in InitialRuleSets
    /\ saved = max_prices
    /\ lastOp = IdleOp
    /\ prevOp = IdleOp
    /\ wpc = <<>>
    /\ wloc = <<>>
    /\ arg = NoArg
    /\ result = NoResult
    /\ req = NoRequest
    /\ reg = NoRegistry
    /\ NoConcurrentCalls

NextRules ==
    \/ OpUpsert
    \/ OpEnsure

SpecRules == InitRules /\ [][NextRules]_vars

\* C25: when update_max_price, or ensure_price_entry_exists returning True,
\* has returned, the saved rule list is the rule list in memory
C25_MutationIsPersisted ==
    (lastOp.op = "upsert" \/ (lastOp.op = "ensure" /\ lastOp.ret)) => saved = max_prices

\* C25, witness: ensure_price_entry_exists has appended a second rule and
\* returned True after an update_max_price
C25_Witness ==
    /\ lastOp.op = "ensure"
    /\ lastOp.ret
    /\ prevOp.op = "other"
    /\ Len(max_prices) = 2
    /\ Len(lastOp.before) = 1

\* C26: no two rules of the store have the same key (item, phase, float,
\* seed), a missing attribute counting as ''
C26_NoDuplicateKeys ==
    \A i, j \in 1..Len(max_prices) :
        i # j => KeyOf(max_prices[i]) # KeyOf(max_prices[j])

\* C26, witness: update_max_price was called for the key the preceding
\* ensure_price_entry_exists was called for, in a store of two rules
C26_Witness ==
    /\ lastOp.op = "upsert"
    /\ prevOp.op = "ensure"
    /\ prevOp.key = lastOp.key
    /\ Len(max_prices) = 2
    /\ KeyOf(max_prices[2]) = lastOp.key

\* C34: a step that is update_max_price(k, max, min) leaves a list from
\* which get_max_price and get_min_price for the query k give max and min
C34_UpsertThenResolve ==
    [][\A k \in RuleKeys, b \in RuleBounds :
          ( /\ lastOp'.op = "upsert"
            /\ lastOp'.key = k
            /\ max_prices' = update_max_price(max_prices, k.item, k.phase, k.float, k.seed, b.max, b.min) )
          =>
          ( /\ get_max_price(max_prices', k.item, k.phase, k.float, k.seed) = b.max
            /\ get_min_price(max_prices', k.item, k.phase, k.float, k.seed) = b.min )]_vars

\* C34, witness: update_max_price has returned and the list holds, before
\* the rule of its key, a less specific rule that matches the key and has
\* another max and another min
C34_Witness ==
    /\ lastOp.op = "upsert"
    /\ Len(max_prices) = 2
    /\ KeyOf(max_prices[2]) = lastOp.key
    /\ Specificity(max_prices[1]) < Specificity(max_prices[2])
    /\ EntryMatches(max_prices[1], lastOp.key.item, lastOp.key.phase, lastOp.key.float, lastOp.key.seed)
    /\ max_prices[1].max_price # max_prices[2].max_price
    /\ max_prices[1].min_price # max_prices[2].min_price

----------------------------------------------------------------------------
(* Instance registry: BotManager.bots and config/bots_config.json *)

\* instance ids the dashboard may name
Ids == {"b1", "b2"}

\* DMarketConfig.secret_key: "good" is the hex text of a signing key, "bad" is
\* text that bytes.fromhex or crypto_sign rejects
SecretKeys == {"good", "bad"}

\* failed cycles of one loop are counted up to this number
MaxFailed == 2

\* BotInstance.__init__: the config is stored as given, nothing is parsed or
\* signed; not running, no thread
Instance(k) == [secret_key |-> k, running |-> FALSE, loop |-> "dead", failed |-> 0]

\* dict with m[id] = v
Put(m, id, v) == [x \in (DOMAIN m) \cup {id} |-> IF x = id THEN v ELSE m[x]]

\* dict without the key id
Drop(m, id) == [x \in (DOMAIN m) \ {id} |-> m[x]]

\* save_configs: the config of every registered instance, by id
save_configs(bots) == [id \in DOMAIN bots |-> [secret_key |-> bots[id].secret_key]]

\* get_all_bots: running and config of every registered instance
get_all_bots(bots) == [id \in DOMAIN bots |-> [running |-> bots[id].running, secret_key |-> bots[id].secret_key]]

\* _generate_headers: bytes.fromhex / crypto_sign raise on a malformed key
generate_headers_raises(k) == k = "bad"

\* load_configs: one instance per entry of the file, none running
InitRegistry ==
    /\ WorkerIdle
    /\ max_prices = <<>>
    /\ saved = <<>>
    /\ lastOp = IdleOp
    /\ prevOp = IdleOp
    /\ wpc = <<>>
    /\ wloc = <<>>
    /\ arg = NoArg
    /\ result = NoResult
    /\ req = NoRequest
    /\ \E b \in {EmptyMap, Put(EmptyMap, "b1", Instance("good"))} :
           reg = [bots |-> b, file |-> save_configs(b), call |-> NoCall]
    /\ NoConcurrentCalls

RegistryFrame == <<workerVars, storeVars, opVars, concVars, arg, result, req, ext, ups, seen>>

\* add_bot without the membership test
AddBotOverwrites(id, k) ==
    /\ reg.call.pc = "done"
    /\ LET bots1 == Put(reg.bots, id, Instance(k))
       IN reg' = [bots |-> bots1,
                  file |-> save_configs(bots1),
                  call |-> [op |-> "add", id |-> id, key |-> k, ret |-> TRUE, pc |-> "done",
                            bots0 |-> get_all_bots(reg.bots), file0 |-> reg.file]]
    /\ UNCHANGED RegistryFrame

\* add_bot: refused for a registered id; otherwise construct, register, save
AddBot(id, k) ==
    /\ reg.call.pc = "done"
    /\ LET present == id \in DOMAIN reg.bots
           bots1 == IF present THEN reg.bots ELSE Put(reg.bots, id, Instance(k))
       IN reg' = [bots |-> bots1,
                  file |-> IF present THEN reg.file ELSE save_configs(bots1),
                  call |-> [op |-> "add", id |-> id, key |-> k, ret |-> ~present, pc |-> "done",
                            bots0 |-> get_all_bots(reg.bots), file0 |-> reg.file]]
    /\ UNCHANGED RegistryFrame

\* remove_bot that deletes without stopping the worker
RemoveBeginWithoutStop(id) ==
    /\ reg.call.pc = "done"
    /\ LET call0 == [op |-> "remove", id |-> id, key |-> "none", ret |-> FALSE, pc |-> "done",
                     bots0 |-> get_all_bots(reg.bots), file0 |-> reg.file]
       IN IF id \in DOMAIN reg.bots
          THEN reg' = [reg EXCEPT !.call = [call0 EXCEPT !.pc = "stopped"]]
          ELSE reg' = [reg EXCEPT !.call = call0]
    /\ UNCHANGED RegistryFrame

\* remove_bot, membership test and self.bots[id].stop(); an unknown id
\* returns False at once
RemoveBegin(id) ==
    /\ reg.call.pc = "done"
    /\ LET call0 == [op |-> "remove", id |-> id, key |-> "none", ret |-> FALSE, pc |-> "done",
                     bots0 |-> get_all_bots(reg.bots), file0 |-> reg.file]
       IN IF id \in DOMAIN reg.bots
          THEN reg' = [reg EXCEPT !.bots[id].running = FALSE,
                                  !.call = [call0 EXCEPT !.pc = "stopped"]]
          ELSE reg' = [reg EXCEPT !.call = call0]
    /\ UNCHANGED RegistryFrame

\* remove_bot: del self.bots[instance_id]
RemoveDelete ==
    /\ reg.call.op = "remove"
    /\ reg.call.pc = "stopped"
    /\ reg' = [reg EXCEPT !.bots = Drop(reg.bots, reg.call.id), !.call.pc = "deleted"]
    /\ UNCHANGED RegistryFrame

\* remove_bot: save_configs(); return True
RemovePersist ==
    /\ reg.call.op = "remove"
    /\ reg.call.pc = "deleted"
    /\ reg' = [reg EXCEPT !.file = save_configs(reg.bots), !.call.pc = "done", !.call.ret = TRUE]
    /\ UNCHANGED RegistryFrame

\* start_bot and BotInstance.start: a new loop thread unless running is set
\* (the previous thread of the instance has ended)
StartBot(id) ==
    /\ reg.call.pc = "done"
    /\ id \in DOMAIN reg.bots => (reg.bots[id].running \/ reg.bots[id].loop = "dead")
    /\ LET call1 == [NoCall EXCEPT !.op = "start", !.id = id, !.ret = id \in DOMAIN reg.bots]
       IN IF id \in DOMAIN reg.bots /\ ~reg.bots[id].running
          THEN reg' = [reg EXCEPT !.bots[id].running = TRUE, !.bots[id].loop = "while",
                                  !.bots[id].failed = 0, !.call = call1]
          ELSE reg' = [reg EXCEPT !.call = call1]
    /\ UNCHANGED RegistryFrame

\* stop_bot and BotInstance.stop
StopBot(id) ==
    /\ reg.call.pc = "done"
    /\ LET call1 == [NoCall EXCEPT !.op = "stop", !.id = id, !.ret = id \in DOMAIN reg.bots]
       IN IF id \in DOMAIN reg.bots
          THEN reg' = [reg EXCEPT !.bots[id].running = FALSE, !.call = call1]
          ELSE reg' = [reg EXCEPT !.call = call1]
    /\ UNCHANGED RegistryFrame

\* run: while self.running
LoopWhile(id) ==
    /\ id \in DOMAIN reg.bots
    /\ reg.bots[id].loop = "while"
    /\ reg' = [reg EXCEPT !.bots[id].loop = IF reg.bots[id].running THEN "fetch" ELSE "dead"]
    /\ UNCHANGED RegistryFrame

\* run: one cycle; with a malformed key get_current_targets raises out of
\* _generate_headers, which the loop's except Exception logs before it waits
LoopCycle(id) ==
    /\ id \in DOMAIN reg.bots
    /\ reg.bots[id].loop = "fetch"
    /\ reg' = [reg EXCEPT !.bots[id].loop = "sleep",
                          !.bots[id].failed = IF generate_headers_raises(reg.bots[id].secret_key)
                                              THEN IF @ < MaxFailed THEN @ + 1 ELSE @
                                              ELSE @]
    /\ UNCHANGED RegistryFrame

\* run: shutdown_event.wait returns; break if the event is set
LoopWake(id) ==
    /\ id \in DOMAIN reg.bots
    /\ reg.bots[id].loop = "sleep"
    /\ reg' = [reg EXCEPT !.bots[id].loop = IF reg.bots[id].running THEN "while" ELSE "dead"]
    /\ UNCHANGED RegistryFrame

NextRegistry ==
    \/ \E id \in Ids, k \in SecretKeys : AddBot(id, k)
    \/ \E id \in Ids : RemoveBegin(id)
    \/ RemoveDelete
    \/ RemovePersist
    \/ \E id \in Ids : StartBot(id)
    \/ \E id \in Ids : StopBot(id)
    \/ \E id \in Ids : LoopWhile(id)
    \/ \E id \in Ids : LoopCycle(id)
    \/ \E id \in Ids : LoopWake(id)

SpecRegistry == InitRegistry /\ [][NextRegistry]_vars

\* C22: when add_bot for a registered id has returned, it returned False and
\* the registry (ids, configs, running flags) and the saved instance list
\* are what they were before the call
C22_AddExistingChangesNothing ==
    (reg.call.op = "add" /\ reg.call.id \in DOMAIN reg.call.bots0) =>
        /\ reg.call.ret = FALSE
        /\ get_all_bots(reg.bots) = reg.call.bots0
        /\ reg.file = reg.call.file0

\* C22, witness: add_bot was called for the id of a running instance with a
\* secret key other than the one the instance has
C22_Witness ==
    /\ reg.call.op = "add"
    /\ reg.call.id \in DOMAIN reg.call.bots0
    /\ reg.call.bots0[reg.call.id].running
    /\ reg.call.key # reg.call.bots0[reg.call.id].secret_key
    /\ DOMAIN reg.bots = Ids

\* C23: remove_bot for a registered id stops the worker while the instance is
\* still registered and saved, then deletes it while the saved list is still
\* the old one, then saves; when it has returned True the id is in neither
\* the registry nor the saved list; for an unknown id it returns False and
\* registry and saved list are what they were
C23_RemoveStopsDeletesPersists ==
    reg.call.op = "remove" =>
        /\ reg.call.pc = "stopped" =>
               /\ reg.call.id \in DOMAIN reg.bots
               /\ ~reg.bots[reg.call.id].running
               /\ DOMAIN reg.bots = DOMAIN reg.call.bots0
               /\ reg.file = reg.call.file0
        /\ reg.call.pc = "deleted" =>
               /\ reg.call.id \notin DOMAIN reg.bots
               /\ reg.call.id \in DOMAIN reg.file
               /\ reg.file = reg.call.file0
        /\ (reg.call.pc = "done" /\ reg.call.ret) =>
               /\ reg.call.id \in DOMAIN reg.call.bots0
               /\ reg.call.id \notin DOMAIN reg.bots
               /\ reg.call.id \notin DOMAIN reg.file
               /\ reg.file = save_configs(reg.bots)
        /\ (reg.call.pc = "done" /\ ~reg.call.ret) =>
               /\ reg.call.id \notin DOMAIN reg.call.bots0
               /\ get_all_bots(reg.bots) = reg.call.bots0
               /\ reg.file = reg.call.file0

\* C23, witness: remove_bot of a running instance has returned True while
\* another instance stays registered
C23_Witness ==
    /\ reg.call.op = "remove"
    /\ reg.call.pc = "done"
    /\ reg.call.ret
    /\ reg.call.bots0[reg.call.id].running
    /\ reg.bots # EmptyMap

\* C24: an instance with a malformed secret key is never running with its
\* loop starting a further cycle after a cycle that failed in signing
C24_MalformedKeyNeverRuns ==
    \A id \in DOMAIN reg.bots :
        generate_headers_raises(reg.bots[id].secret_key) =>
            ~(reg.bots[id].running /\ reg.bots[id].loop = "fetch" /\ reg.bots[id].failed >= MaxFailed)

----------------------------------------------------------------------------
(* start() and stop() of one instance called by request threads of the     *)
(* dashboard at once: specification SpecCallers.  Neither method takes a   *)
(* lock; a thread switch can fall between any two of their statements.     *)

\* a request thread outside start() and stop()
IdleCaller == [op |-> "none", pc |-> "idle"]

InitCallers ==
    /\ running = FALSE
    /\ first_cycle_complete = FALSE
    /\ shutdown_event = FALSE
    /\ thread = 0
    /\ pc = [t \in LifeThreads |-> "dead"]
    /\ loc = [t \in LifeThreads |-> NoLocals]
    /\ available_items = {}
    /\ fresh = FALSE
    /\ past_first = [t \in LifeThreads |-> FALSE]
    /\ max_prices = <<>>
    /\ saved = <<>>
    /\ lastOp = IdleOp
    /\ prevOp = IdleOp
    /\ wpc = <<>>
    /\ wloc = <<>>
    /\ arg = NoArg
    /\ result = NoResult
    /\ req = NoRequest
    /\ reg = NoRegistry
    /\ ext = [c \in Callers |-> IdleCaller]
    /\ ups = NoUpsert
    /\ seen = {}

CallersFrame == <<available_items, fresh, past_first, storeVars, opVars, concVars, arg, result, req, reg, ups, seen>>

\* start_bot / stop_bot: the request thread enters start() or stop()
Enter(c) ==
    /\ ext[c].pc = "idle"
    /\ \E o \in {"start", "stop"} :
          ext' = [ext EXCEPT ![c] = [op |-> o, pc |-> IF o = "start" THEN "test" ELSE "flag"]]
    /\ UNCHANGED <<running, first_cycle_complete, shutdown_event, thread, pc, loc, CallersFrame>>

\* start: if not self.running
StartTest(c) ==
    /\ ext[c].pc = "test"
    /\ ext' = [ext EXCEPT ![c] = IF running THEN IdleCaller ELSE [op |-> "start", pc |-> "set"]]
    /\ UNCHANGED <<running, first_cycle_complete, shutdown_event, thread, pc, loc, CallersFrame>>

\* start: self.running = True
StartSet(c) ==
    /\ ext[c].pc = "set"
    /\ running' = TRUE
    /\ ext' = [ext EXCEPT ![c].pc = "reset"]
    /\ UNCHANGED <<first_cycle_complete, shutdown_event, thread, pc, loc, CallersFrame>>

\* start: self.first_cycle_complete = False
StartReset(c) ==
    /\ ext[c].pc = "reset"
    /\ first_cycle_complete' = FALSE
    /\ ext' = [ext EXCEPT ![c].pc = "clear"]
    /\ UNCHANGED <<running, shutdown_event, thread, pc, loc, CallersFrame>>

\* start: self.shutdown_event.clear()
StartClear(c) ==
    /\ ext[c].pc = "clear"
    /\ shutdown_event' = FALSE
    /\ ext' = [ext EXCEPT ![c].pc = "launch"]
    /\ UNCHANGED <<running, first_cycle_complete, thread, pc, loc, CallersFrame>>

\* start: self.thread = threading.Thread(target=self.run); self.thread.start()
StartLaunch(c) ==
    /\ ext[c].pc = "launch"
    /\ \E t \in DOMAIN pc :
          /\ ~Alive(t)
          /\ \A u \in DOMAIN pc : u < t => Alive(u)
          /\ thread' = t
          /\ pc' = [pc EXCEPT ![t] = "while"]
          /\ loc' = [loc EXCEPT ![t] = NoLocals]
    /\ ext' = [ext EXCEPT ![c] = IdleCaller]
    /\ UNCHANGED <<running, first_cycle_complete, shutdown_event, CallersFrame>>

\* stop: self.running = False
StopFlag(c) ==
    /\ ext[c].pc = "flag"
    /\ running' = FALSE
    /\ ext' = [ext EXCEPT ![c].pc = "signal"]
    /\ UNCHANGED <<first_cycle_complete, shutdown_event, thread, pc, loc, CallersFrame>>

\* stop: self.shutdown_event.set()
StopSignal(c) ==
    /\ ext[c].pc = "signal"
    /\ shutdown_event' = TRUE
    /\ ext' = [ext EXCEPT ![c].pc = "join"]
    /\ UNCHANGED <<running, first_cycle_complete, thread, pc, loc, CallersFrame>>

\* stop: self.thread.join(timeout=1) returns, the thread ended or not
StopJoin(c) ==
    /\ ext[c].pc = "join"
    /\ ext' = [ext EXCEPT ![c] = IdleCaller]
    /\ UNCHANGED <<running, first_cycle_complete, shutdown_event, thread, pc, loc, CallersFrame>>

\* run: one cycle from get_current_targets to the wait at its end, the
\* listing fetched and every target reconciled
CycleWhole(t) ==
    /\ pc[t] = "fetch"
    /\ first_cycle_complete' = TRUE
    /\ pc' = [pc EXCEPT ![t] = "sleep"]
    /\ UNCHANGED <<running, shutdown_event, thread, loc, ext, CallersFrame>>

NextCallers ==
    \/ \E c \in Callers :
          \/ Enter(c)
          \/ StartTest(c)
          \/ StartSet(c)
          \/ StartReset(c)
          \/ StartClear(c)
          \/ StartLaunch(c)
          \/ StopFlag(c)
          \/ StopSignal(c)
          \/ StopJoin(c)
    \/ \E t \in LifeThreads :
          \/ While(t)
          \/ CycleWhole(t)
          \/ FetchFail(t)
          \/ Wake(t)

SpecCallers == InitCallers /\ [][NextCallers]_vars

\* C31: whenever the instance reports running = True and no request thread
\* is inside stop() (or still inside start()), a loop thread of the instance
\* is alive and is not about to end at a wait on the set event
C31_RunningMeansLoopAlive ==
    (running /\ \A c \in Callers : ext[c].pc = "idle") =>
        \E t \in DOMAIN pc :
            /\ Alive(t)
            /\ ~(pc[t] \in {"sleep", "err_sleep"} /\ shutdown_event)

----------------------------------------------------------------------------
(* update_max_price running while workers are inside                        *)
(* ensure_price_entry_exists: specification SpecMutate.  Neither method     *)
(* takes a lock.  update_max_price builds the filtered list, rebinds        *)
(* self.max_prices to it, appends and saves; the list comprehension is      *)
(* taken as one step, which leaves out interleavings but adds none.         *)

\* keys update_max_price is called with, none of them a key of CallerKeys
UpsertKeys == { Key("B", "", "", "") }

InitMutate ==
    /\ WorkerIdle
    /\ max_prices \in ConcInitialRuleSets
    /\ saved = max_prices
    /\ lastOp = IdleOp
    /\ prevOp = IdleOp
    /\ wpc = [w \in Callers |-> "scan"]
    /\ wloc \in [Callers -> [key : CallerKeys, dmax : {calculated_default_max(2)},
                             i : {1}, ret : {"pending"}]]
    /\ arg = NoArg
    /\ result = NoResult
    /\ req = NoRequest
    /\ reg = NoRegistry
    /\ ext = <<>>
    /\ \E k \in UpsertKeys, b \in RuleBounds :
           ups = [pc |-> "filter", key |-> k, max |-> b.max, min |-> b.min, new |-> <<>>]
    /\ seen = {}

MutateFrame == <<workerVars, opVars, concVars, arg, result, req, reg, ext, seen>>

\* update_max_price, lines 561-566: the list comprehension over self.max_prices
UpsertFilter ==
    /\ ups.pc = "filter"
    /\ ups' = [ups EXCEPT !.pc = "rebind",
                          !.new = SelectSeq(max_prices,
                                            LAMBDA e : ~ExactEntry(e, ups.key.item, ups.key.phase,
                                                                   ups.key.float, ups.key.seed))]
    /\ UNCHANGED <<storeVars, MutateFrame>>

\* update_max_price, line 561: self.max_prices = the new list
UpsertRebind ==
    /\ ups.pc = "rebind"
    /\ max_prices' = ups.new
    /\ ups' = [ups EXCEPT !.pc = "append"]
    /\ UNCHANGED <<saved, MutateFrame>>

\* update_max_price, lines 568-575: self.max_prices.append(...)
UpsertAppend ==
    /\ ups.pc = "append"
    /\ max_prices' = Append(max_prices, Entry(ups.key.item, ups.key.phase, ups.key.float,
                                              ups.key.seed, ups.max, ups.min))
    /\ ups' = [ups EXCEPT !.pc = "save"]
    /\ UNCHANGED <<saved, MutateFrame>>

\* update_max_price, line 576: save_max_prices() and return
UpsertSave ==
    /\ ups.pc = "save"
    /\ saved' = max_prices
    /\ ups' = [ups EXCEPT !.pc = "done"]
    /\ UNCHANGED <<max_prices, MutateFrame>>

NextMutate ==
    \/ UpsertFilter
    \/ UpsertRebind
    \/ UpsertAppend
    \/ UpsertSave
    \/ \E w \in Callers :
          \/ ScanStep(w)
          \/ AppendStep(w)
          \/ SaveStep(w)

SpecMutate == InitMutate /\ [][NextMutate]_vars

\* the list holds a rule of the key
HasKey(prices, k) == \E i \in 1..Len(prices) : KeyOf(prices[i]) = k

\* C32: when update_max_price and the ensure_price_entry_exists calls that
\* ran at the same time, for other keys, have all returned, the rule of
\* every ensure call that returned True and the rule of update_max_price
\* are in the list in memory and in the saved list
C32_NoRuleLost ==
    (ups.pc = "done" /\ \A w \in Callers : wpc[w] = "done") =>
        /\ \A w \in Callers :
              wloc[w].ret = "True" =>
                  (HasKey(max_prices, wloc[w].key) /\ HasKey(saved, wloc[w].key))
        /\ HasKey(max_prices, ups.key)
        /\ HasKey(saved, ups.key)

----------------------------------------------------------------------------
(* The two reads of update_target, get_max_price and get_min_price, with   *)
(* update_max_price called in between: specification SpecPair.  The        *)
(* upsert is taken as one step.                                            *)

\* targets under reconciliation: without attributes, with a phase, and with
\* phase and float, for which two rules can tie on specificity
PairTargets ==
    { Target(1, "A", 2, "", "", ""),
      Target(2, "A", 3, "P1", "", ""),
      Target(3, "A", 3, "P1", "F1", "") }

\* the worker is at the entry of update_target for a listed target
InitPair ==
    /\ running = TRUE
    /\ first_cycle_complete \in BOOLEAN
    /\ shutdown_event = FALSE
    /\ thread = 1
    /\ pc = [t \in Threads |-> "get_max"]
    /\ \E tg \in PairTargets :
           loc = [t \in Threads |-> [NoLocals EXCEPT !.targets = <<tg>>, !.idx = 1]]
    /\ available_items = {"A"}
    /\ fresh = FALSE
    /\ past_first = [t \in Threads |-> first_cycle_complete]
    /\ max_prices \in InitialRuleSets
    /\ saved = max_prices
    /\ lastOp = IdleOp
    /\ prevOp = IdleOp
    /\ wpc = <<>>
    /\ wloc = <<>>
    /\ arg = NoArg
    /\ result = NoResult
    /\ req = NoRequest
    /\ reg = NoRegistry
    /\ ext = <<>>
    /\ ups = NoUpsert
    /\ seen = {max_prices}

\* update_max_price called from another thread while the worker is between
\* the entry of update_target and its second read
UpsertDuring ==
    /\ \E t \in Threads : pc[t] \in {"get_max", "get_min"}
    /\ Cardinality(seen) <= MaxUpserts
    /\ \E k \in RuleKeys, b \in RuleBounds :
          LET after == update_max_price(max_prices, k.item, k.phase, k.float, k.seed, b.max, b.min)
          IN  /\ Len(after) <= MaxRules
              /\ max_prices' = after
              /\ saved' = after
              /\ seen' = seen \cup {after}
    /\ UNCHANGED <<workerVars, opVars, concVars, arg, result, req, reg, ext, ups>>

NextPair ==
    \/ UpsertDuring
    \/ \E t \in Threads :
          \/ GetMax(t)
          \/ GetMin(t)

SpecPair == InitPair /\ [][NextPair]_vars

\* C33: where a rule was found for the target (max_price_config is not
\* inf), the pair (max_price_to_use, min_price_to_use) the reconciliation
\* goes on with is what one and the same value of the rule list gives for
\* the target, that is the max and the min of the one rule chosen from it
C33_PairFromOneRule ==
    \A t \in Threads :
        (pc[t] = "del_check" /\ loc[t].max_price_config # Inf) =>
            \E prices \in seen :
                /\ loc[t].max_price_to_use = get_max_price(prices, Cur(t).Title, Cur(t).phase, Cur(t).float, Cur(t).seed)
                /\ loc[t].min_price_to_use = get_min_price(prices, Cur(t).Title, Cur(t).phase, Cur(t).float, Cur(t).seed)

====
